---- MODULE Spec2Model ----
(***************************************************************************)
(* A model of the sounding-base crate: the sentinel-encoded optional       *)
(* (src/src/missing_value.rs), the Sounding aggregate with its setters,    *)
(* row materialisation, row iterators and queries by pressure              *)
(* (src/src/sounding.rs) and the validator in its two versions             *)
(* (src/src/sounding.rs, src/src/lib.rs).                                  *)
(*                                                                         *)
(* Floating point values are modelled by integers; OptionVal<T> is a       *)
(* newtype over T and is modelled by the wrapped value itself.  Option<T>  *)
(* is modelled by a sequence: None is <<>>, Some(x) is <<x>>.              *)
(***************************************************************************)
EXTENDS Integers, Sequences, FiniteSets, TLC

VARIABLES
    snd,      \* the Sounding value being built
    calls,    \* number of setter calls / struct updates made so far
    last,     \* the last setter call: its name and its arguments
    it,       \* the live ProfileIterator (if any) and what it has yielded
    row,      \* the last get_data_row call and its result
    vres,     \* the last validate call and its result
    cell      \* OptionVal scratch: the last conversion and its result

vars == <<snd, calls, last, it, row, vres, cell>>

(***************************************************************************)
(* Bounds of the model.                                                    *)
(***************************************************************************)
MaxCalls == 2
MaxExtra == 1

(***************************************************************************)
(* missing_value.rs                                                        *)
(***************************************************************************)
MISSING_f32 == -9999
MISSING_i32 == -9999

Types == {"f32", "i32"}

\* T::MISSING.  The f64 cells of sounding.rs use the float sentinel.
MISSING_of(T) == IF T = "i32" THEN MISSING_i32 ELSE MISSING_f32

MISSING == MISSING_f32

None == <<>>
Some(x) == <<x>>

\* impl From<T> for OptionVal<T>
OptionVal_from(T, src) == [ty |-> T, value |-> src]

\* impl From<Option<T>> for OptionVal<T>
OptionVal_from_option(T, src) ==
    IF src # None THEN OptionVal_from(T, src[1])
                  ELSE OptionVal_from(T, MISSING_of(T))

\* impl Default for OptionVal<T>
OptionVal_default(T) == OptionVal_from(T, MISSING_of(T))

\* mutant of OptionVal_into: the sentinel test is an ordering test
OptionVal_into_le(c) ==
    IF c.value <= MISSING_of(c.ty) THEN None ELSE Some(c.value)

\* impl Into<Option<T>> for OptionVal<T>
OptionVal_into(c) ==
    IF c.value = MISSING_of(c.ty) THEN None ELSE Some(c.value)

\* OptionVal::as_option
as_option_cell(c) == OptionVal_into(c)

\* OptionVal::unwrap
unwrap_cell(c) == c.value

\* The same conversions on the f64 cells stored in a Sounding, which the
\* model keeps as the bare wrapped value.
as_option(v) == OptionVal_into(OptionVal_from("f32", v))
as_option_i32(v) == OptionVal_into(OptionVal_from("i32", v))
unwrap(v) == unwrap_cell(OptionVal_from("f32", v))
is_none(o) == o = None
is_some(o) == o # None

(***************************************************************************)
(* sounding.rs: the enums and the Sounding struct.  The record carries the *)
(* fields of src/src/sounding.rs and, in addition, the Haines index field  *)
(* `hain` that only the struct of src/src/lib.rs has; no method of         *)
(* sounding.rs reads or writes it.                                         *)
(***************************************************************************)

\* enum Profile
Profile ==
    {"Pressure", "Temperature", "WetBulb", "DewPoint", "ThetaE",
     "WindDirection", "WindSpeed", "PressureVerticalVelocity",
     "GeopotentialHeight", "CloudFraction"}

\* enum Surface
Surface ==
    {"MSLP", "StationPressure", "LowCloud", "MidCloud", "HighCloud",
     "UWind", "VWind"}

\* enum Index; Haines is the one variant without storage in sounding.rs
Index ==
    {"Showalter", "LI", "SWeT", "K", "LCL", "PWAT", "TotalTotals",
     "CAPE", "LCLTemperature", "CIN", "EquilibrimLevel", "LFC",
     "BulkRichardsonNumber", "Haines"}

\* the variants of Index with a field in the struct
StoredIndex == Index \ {"Haines"}

\* the profile vectors of the struct
ProfileFields ==
    {"pressure", "temperature", "wet_bulb", "dew_point", "theta_e",
     "direction", "speed", "omega", "height", "cloud_fraction"}

\* #[derive(Default)] struct Sounding
Sounding_default ==
    [num |-> MISSING_i32, valid_time |-> None, lead_time |-> MISSING_i32,
     lat |-> MISSING, lon |-> MISSING, elevation |-> MISSING,
     show |-> MISSING, li |-> MISSING, swet |-> MISSING,
     kinx |-> MISSING, lclp |-> MISSING, pwat |-> MISSING,
     totl |-> MISSING, cape |-> MISSING, lclt |-> MISSING,
     cins |-> MISSING, eqlv |-> MISSING, lfc |-> MISSING,
     brch |-> MISSING, hain |-> MISSING_i32, pressure |-> <<>>,
     temperature |-> <<>>, wet_bulb |-> <<>>, dew_point |-> <<>>,
     theta_e |-> <<>>, direction |-> <<>>, speed |-> <<>>,
     omega |-> <<>>, height |-> <<>>, cloud_fraction |-> <<>>,
     mslp |-> MISSING, station_pres |-> MISSING, low_cloud |-> MISSING,
     mid_cloud |-> MISSING, hi_cloud |-> MISSING, uwind |-> MISSING,
     vwind |-> MISSING]

\* Sounding::new
Sounding_new == Sounding_default

\* #[derive(Default)] struct DataRow
DataRow_default ==
    [pressure |-> MISSING, temperature |-> MISSING, wet_bulb |-> MISSING,
     dew_point |-> MISSING, theta_e |-> MISSING, direction |-> MISSING,
     speed |-> MISSING, omega |-> MISSING, height |-> MISSING,
     cloud_fraction |-> MISSING]

\* mutant of set_profile: a present station pressure is put in front of a
\* non-empty pressure profile
set_profile_prepend(s, var, values) ==
    IF var = "Pressure" /\ values # <<>> /\ s.station_pres # MISSING
    THEN [s EXCEPT !.pressure = <<s.station_pres>> \o values]
    ELSE [s EXCEPT ![CASE var = "Pressure" -> "pressure"
                       [] var = "Temperature" -> "temperature"
                       [] var = "WetBulb" -> "wet_bulb"
                       [] var = "DewPoint" -> "dew_point"
                       [] var = "ThetaE" -> "theta_e"
                       [] var = "WindDirection" -> "direction"
                       [] var = "WindSpeed" -> "speed"
                       [] var = "PressureVerticalVelocity" -> "omega"
                       [] var = "GeopotentialHeight" -> "height"
                       [] var = "CloudFraction" -> "cloud_fraction"] = values]

\* Sounding::set_profile
set_profile(s, var, values) ==
    CASE var = "Pressure" -> [s EXCEPT !.pressure = values]
      [] var = "Temperature" -> [s EXCEPT !.temperature = values]
      [] var = "WetBulb" -> [s EXCEPT !.wet_bulb = values]
      [] var = "DewPoint" -> [s EXCEPT !.dew_point = values]
      [] var = "ThetaE" -> [s EXCEPT !.theta_e = values]
      [] var = "WindDirection" -> [s EXCEPT !.direction = values]
      [] var = "WindSpeed" -> [s EXCEPT !.speed = values]
      [] var = "PressureVerticalVelocity" -> [s EXCEPT !.omega = values]
      [] var = "GeopotentialHeight" -> [s EXCEPT !.height = values]
      [] var = "CloudFraction" -> [s EXCEPT !.cloud_fraction = values]

\* Sounding::get_profile
get_profile(s, var) ==
    CASE var = "Pressure" -> s.pressure
      [] var = "Temperature" -> s.temperature
      [] var = "WetBulb" -> s.wet_bulb
      [] var = "DewPoint" -> s.dew_point
      [] var = "ThetaE" -> s.theta_e
      [] var = "WindDirection" -> s.direction
      [] var = "WindSpeed" -> s.speed
      [] var = "PressureVerticalVelocity" -> s.omega
      [] var = "GeopotentialHeight" -> s.height
      [] var = "CloudFraction" -> s.cloud_fraction

\* mutant of set_surface_value: the station pressure also overwrites index 0
\* of a non-empty pressure profile
set_surface_value_patch(s, var, value) ==
    IF var = "StationPressure"
    THEN [s EXCEPT !.station_pres = value,
                   !.pressure = IF @ = <<>> THEN @ ELSE [@ EXCEPT ![1] = value]]
    ELSE [s EXCEPT ![CASE var = "MSLP" -> "mslp"
                       [] var = "LowCloud" -> "low_cloud"
                       [] var = "MidCloud" -> "mid_cloud"
                       [] var = "HighCloud" -> "hi_cloud"
                       [] var = "UWind" -> "uwind"
                       [] var = "VWind" -> "vwind"] = value]

\* Sounding::set_surface_value
set_surface_value(s, var, value) ==
    CASE var = "MSLP" -> [s EXCEPT !.mslp = value]
      [] var = "StationPressure" -> [s EXCEPT !.station_pres = value]
      [] var = "LowCloud" -> [s EXCEPT !.low_cloud = value]
      [] var = "MidCloud" -> [s EXCEPT !.mid_cloud = value]
      [] var = "HighCloud" -> [s EXCEPT !.hi_cloud = value]
      [] var = "UWind" -> [s EXCEPT !.uwind = value]
      [] var = "VWind" -> [s EXCEPT !.vwind = value]

\* Sounding::get_surface_value
get_surface_value(s, var) ==
    CASE var = "MSLP" -> s.mslp
      [] var = "StationPressure" -> s.station_pres
      [] var = "LowCloud" -> s.low_cloud
      [] var = "MidCloud" -> s.mid_cloud
      [] var = "HighCloud" -> s.hi_cloud
      [] var = "UWind" -> s.uwind
      [] var = "VWind" -> s.vwind

\* #[cfg(debug_assert)]: whether the block it guards is compiled.  The cfg
\* option a build with debug assertions sets is debug_assertions; no build
\* profile sets debug_assert
cfg_debug_assert(debug_assertions) == FALSE

\* the _not_used arm of set_index and get_index: whether it panics
not_used_panics(debug_assertions) == cfg_debug_assert(debug_assertions)

\* mutant of set_index: the Haines index is stored
set_index_hain(s, var, value) ==
    CASE var = "Showalter" -> [s EXCEPT !.show = value]
      [] var = "LI" -> [s EXCEPT !.li = value]
      [] var = "SWeT" -> [s EXCEPT !.swet = value]
      [] var = "K" -> [s EXCEPT !.kinx = value]
      [] var = "LCL" -> [s EXCEPT !.lclp = value]
      [] var = "PWAT" -> [s EXCEPT !.pwat = value]
      [] var = "TotalTotals" -> [s EXCEPT !.totl = value]
      [] var = "CAPE" -> [s EXCEPT !.cape = value]
      [] var = "LCLTemperature" -> [s EXCEPT !.lclt = value]
      [] var = "CIN" -> [s EXCEPT !.cins = value]
      [] var = "EquilibrimLevel" -> [s EXCEPT !.eqlv = value]
      [] var = "LFC" -> [s EXCEPT !.lfc = value]
      [] var = "BulkRichardsonNumber" -> [s EXCEPT !.brch = value]
      [] OTHER -> [s EXCEPT !.hain = value]

\* Sounding::set_index; the _not_used arm is empty: cfg(debug_assert) is
\* never set, so the panic is compiled out of every build
set_index(s, var, value) ==
    CASE var = "Showalter" -> [s EXCEPT !.show = value]
      [] var = "LI" -> [s EXCEPT !.li = value]
      [] var = "SWeT" -> [s EXCEPT !.swet = value]
      [] var = "K" -> [s EXCEPT !.kinx = value]
      [] var = "LCL" -> [s EXCEPT !.lclp = value]
      [] var = "PWAT" -> [s EXCEPT !.pwat = value]
      [] var = "TotalTotals" -> [s EXCEPT !.totl = value]
      [] var = "CAPE" -> [s EXCEPT !.cape = value]
      [] var = "LCLTemperature" -> [s EXCEPT !.lclt = value]
      [] var = "CIN" -> [s EXCEPT !.cins = value]
      [] var = "EquilibrimLevel" -> [s EXCEPT !.eqlv = value]
      [] var = "LFC" -> [s EXCEPT !.lfc = value]
      [] var = "BulkRichardsonNumber" -> [s EXCEPT !.brch = value]
      [] OTHER -> s

\* mutant of get_index: the LCL arm reads the field of LCLTemperature
get_index_lclt(s, var) ==
    CASE var = "Showalter" -> s.show
      [] var = "LI" -> s.li
      [] var = "SWeT" -> s.swet
      [] var = "K" -> s.kinx
      [] var = "LCL" -> s.lclt
      [] var = "PWAT" -> s.pwat
      [] var = "TotalTotals" -> s.totl
      [] var = "CAPE" -> s.cape
      [] var = "LCLTemperature" -> s.lclt
      [] var = "CIN" -> s.cins
      [] var = "EquilibrimLevel" -> s.eqlv
      [] var = "LFC" -> s.lfc
      [] var = "BulkRichardsonNumber" -> s.brch
      [] OTHER -> MISSING

\* Sounding::get_index; the _not_used arm yields OptionVal::default()
get_index(s, var) ==
    CASE var = "Showalter" -> s.show
      [] var = "LI" -> s.li
      [] var = "SWeT" -> s.swet
      [] var = "K" -> s.kinx
      [] var = "LCL" -> s.lclp
      [] var = "PWAT" -> s.pwat
      [] var = "TotalTotals" -> s.totl
      [] var = "CAPE" -> s.cape
      [] var = "LCLTemperature" -> s.lclt
      [] var = "CIN" -> s.cins
      [] var = "EquilibrimLevel" -> s.eqlv
      [] var = "LFC" -> s.lfc
      [] var = "BulkRichardsonNumber" -> s.brch
      [] OTHER -> MISSING

\* Sounding::set_location
set_location(s, latitude, longitude, elevation) ==
    [s EXCEPT !.lat = latitude, !.lon = longitude, !.elevation = elevation]

\* Sounding::get_location
get_location(s) == <<s.lat, s.lon, s.elevation>>

\* Sounding::set_station_num
set_station_num(s, station_num) == [s EXCEPT !.num = station_num]

\* Sounding::get_station_num
get_station_num(s) == s.num

\* Sounding::set_lead_time
set_lead_time(s, lt) == [s EXCEPT !.lead_time = lt]

\* Sounding::get_lead_time
get_lead_time(s) == s.lead_time

\* Sounding::set_valid_time
set_valid_time(s, valid_time) == [s EXCEPT !.valid_time = valid_time]

\* Sounding::get_valid_time
get_valid_time(s) == s.valid_time

(***************************************************************************)
(* sounding.rs: rows and the row iterator.                                 *)
(*                                                                         *)
(* usize and isize are modelled with the width of the checker's integers   *)
(* (the crate's targets have 64 bits); only the wrap at zero matters.      *)
(***************************************************************************)
USIZE_MAX == 2147483647
ISIZE_MAX == 1073741823

\* `x as usize` of an isize
as_usize(x) == IF x >= 0 THEN x ELSE USIZE_MAX + (x + 1)

\* `x as isize` of a usize
as_isize(x) == IF x > ISIZE_MAX THEN (x - USIZE_MAX) - 1 ELSE x

\* usize subtraction with overflow checks off: it wraps
wrapping_sub(a, b) == IF a >= b THEN a - b ELSE USIZE_MAX - ((b - a) - 1)

\* usize subtraction overflows (a panic when overflow checks are on)
sub_overflows(a, b) == a < b

\* slice::get on a Vec, with a 0-based index
vec_get(v, idx) == IF idx < Len(v) THEN Some(v[idx + 1]) ELSE None

\* mutant of copy_to_result: the element after the asked one is copied
copy_to_result_next(result, s, field, idx) ==
    IF vec_get(s[field], idx + 1) = None
    THEN result
    ELSE [result EXCEPT ![field] = vec_get(s[field], idx + 1)[1]]

\* macro copy_to_result! of get_data_row
copy_to_result(result, s, field, idx) ==
    IF vec_get(s[field], idx) = None
    THEN result
    ELSE [result EXCEPT ![field] = vec_get(s[field], idx)[1]]

\* mutant of get_data_row: the bounds test lets idx = len through
get_data_row_lt(s, idx) ==
    IF Len(s.pressure) < idx
    THEN None
    ELSE LET r0 == DataRow_default
             r1 == copy_to_result(r0, s, "pressure", idx)
             r2 == copy_to_result(r1, s, "temperature", idx)
             r3 == copy_to_result(r2, s, "wet_bulb", idx)
             r4 == copy_to_result(r3, s, "dew_point", idx)
             r5 == copy_to_result(r4, s, "theta_e", idx)
             r6 == copy_to_result(r5, s, "direction", idx)
             r7 == copy_to_result(r6, s, "speed", idx)
             r8 == copy_to_result(r7, s, "omega", idx)
             r9 == copy_to_result(r8, s, "height", idx)
             r10 == copy_to_result(r9, s, "cloud_fraction", idx)
         IN  Some(r10)

\* Sounding::get_data_row
get_data_row(s, idx) ==
    IF Len(s.pressure) <= idx
    THEN None
    ELSE LET r0 == DataRow_default
             r1 == copy_to_result(r0, s, "pressure", idx)
             r2 == copy_to_result(r1, s, "temperature", idx)
             r3 == copy_to_result(r2, s, "wet_bulb", idx)
             r4 == copy_to_result(r3, s, "dew_point", idx)
             r5 == copy_to_result(r4, s, "theta_e", idx)
             r6 == copy_to_result(r5, s, "direction", idx)
             r7 == copy_to_result(r6, s, "speed", idx)
             r8 == copy_to_result(r7, s, "omega", idx)
             r9 == copy_to_result(r8, s, "height", idx)
             r10 == copy_to_result(r9, s, "cloud_fraction", idx)
         IN  Some(r10)

\* Sounding::bottom_up
bottom_up(s) == [next |-> 0, direction |-> 1]

\* Sounding::top_down, once `self.pressure.len() - 1` has not panicked
top_down(s) ==
    [next |-> as_isize(wrapping_sub(Len(s.pressure), 1)), direction |-> -1]

\* ProfileIterator::next: the item returned
next_item(s, i) == get_data_row(s, as_usize(i.next))

\* ProfileIterator::next: the iterator afterwards
next_iter(s, i) == [i EXCEPT !.next = i.next + i.direction]

\* Iterator::collect on a ProfileIterator: next() until it returns None
RECURSIVE collect(_, _)
collect(s, i) ==
    IF next_item(s, i) = None
    THEN <<>>
    ELSE <<next_item(s, i)[1]>> \o collect(s, next_iter(s, i))

(***************************************************************************)
(* Sounding::validate.  The error string is modelled by the sequence of    *)
(* the messages pushed onto it, in the order of the pushes; a message      *)
(* keeps its text up to the formatted values, the variable name and the    *)
(* values.  Each helper yields the messages its block of code pushes.  The *)
(* code of src/src/lib.rs is that of src/src/sounding.rs on f32 plus the   *)
(* Haines check, so the two validators share the loops.  F_MAX and F_MIN   *)
(* stand for f64::MAX and f64::MIN: they bound every value of the model.   *)
(***************************************************************************)
F_MAX == 2147483647
F_MIN == -2147483647

Msg(rule, name, a, b) == [rule |-> rule, name |-> name, a |-> a, b |-> b]

\* macro validate_f64_positive! of sounding.rs
validate_f64_positive(val, var_name) ==
    IF as_option(val) # None /\ as_option(val)[1] < 0
    THEN <<Msg("< 0.0", var_name, as_option(val)[1], 0)>>
    ELSE <<>>

\* macro validate_f32_positive! of lib.rs
validate_f32_positive(val, var_name) ==
    IF as_option(val) # None /\ as_option(val)[1] < 0
    THEN <<Msg("< 0.0", var_name, as_option(val)[1], 0)>>
    ELSE <<>>

\* if self.pressure.is_empty() { .. }
pressure_required(pressure) ==
    IF Len(pressure) = 0
    THEN <<Msg("Pressure variable required, none given.", "", 0, 0)>>
    ELSE <<>>

\* mutant of validate_vector_len: an empty profile is reported too
validate_vector_len_empty(vec, len, var_name) ==
    IF Len(vec) # len
    THEN <<Msg("array has different length than pressure array.",
               var_name, 0, 0)>>
    ELSE <<>>

\* mutant of validate_vector_len: only a longer profile is reported
validate_vector_len_gt(vec, len, var_name) ==
    IF ~(Len(vec) = 0) /\ Len(vec) > len
    THEN <<Msg("array has different length than pressure array.",
               var_name, 0, 0)>>
    ELSE <<>>

\* macro validate_vector_len!
validate_vector_len(vec, len, var_name) ==
    IF ~(Len(vec) = 0) /\ Len(vec) # len
    THEN <<Msg("array has different length than pressure array.",
               var_name, 0, 0)>>
    ELSE <<>>

\* the initial pressure_one_level_down: the station pressure when present
pressure_start(s) ==
    IF as_option(s.station_pres) # None
    THEN as_option(s.station_pres)[1]
    ELSE F_MAX

\* mutant of pressure_loop: an equal pressure is reported too
RECURSIVE pressure_loop_le(_, _, _)
pressure_loop_le(pressure, i, pressure_one_level_down) ==
    IF i > Len(pressure) THEN <<>>
    ELSE IF is_none(as_option(pressure[i]))
    THEN pressure_loop_le(pressure, i + 1, pressure_one_level_down)
    ELSE LET pres_val == unwrap(pressure[i])
         IN  (IF pressure_one_level_down <= pres_val
              THEN <<Msg("Pressure increasing with height", "",
                         pressure_one_level_down, pres_val)>>
              ELSE <<>>)
             \o pressure_loop_le(pressure, i + 1, pres_val)

\* for pres in &self.pressure { .. }, from element i on
RECURSIVE pressure_loop(_, _, _)
pressure_loop(pressure, i, pressure_one_level_down) ==
    IF i > Len(pressure) THEN <<>>
    ELSE IF is_none(as_option(pressure[i]))
    THEN pressure_loop(pressure, i + 1, pressure_one_level_down)
    ELSE LET pres_val == unwrap(pressure[i])
         IN  (IF pressure_one_level_down < pres_val
              THEN <<Msg("Pressure increasing with height", "",
                         pressure_one_level_down, pres_val)>>
              ELSE <<>>)
             \o pressure_loop(pressure, i + 1, pres_val)

\* for hght in &self.height { .. }, from element i on
RECURSIVE height_loop(_, _, _)
height_loop(height, i, height_one_level_down) ==
    IF i > Len(height) THEN <<>>
    ELSE IF is_none(as_option(height[i]))
    THEN height_loop(height, i + 1, height_one_level_down)
    ELSE LET hght_val == unwrap(height[i])
         IN  (IF height_one_level_down > hght_val
              THEN <<Msg("Height values decreasing with height", "",
                         height_one_level_down, hght_val)>>
              ELSE <<>>)
             \o height_loop(height, i + 1, hght_val)

\* mutant of zip_loop: a pair is skipped only when its second value is
\* missing
RECURSIVE zip_loop_second(_, _, _, _)
zip_loop_second(xs, ys, rule, i) ==
    IF i > Len(xs) \/ i > Len(ys) THEN <<>>
    ELSE IF is_none(as_option(ys[i]))
    THEN zip_loop_second(xs, ys, rule, i + 1)
    ELSE (IF unwrap(xs[i]) < unwrap(ys[i])
          THEN <<Msg(rule, "", unwrap(xs[i]), unwrap(ys[i]))>>
          ELSE <<>>)
         \o zip_loop_second(xs, ys, rule, i + 1)

\* for (x, y) in xs.iter().zip(ys.iter()) { .. }, from pair i on: the three
\* loops checking dew point <= wet bulb <= t
RECURSIVE zip_loop(_, _, _, _)
zip_loop(xs, ys, rule, i) ==
    IF i > Len(xs) \/ i > Len(ys) THEN <<>>
    ELSE IF is_none(as_option(xs[i])) \/ is_none(as_option(ys[i]))
    THEN zip_loop(xs, ys, rule, i + 1)
    ELSE (IF unwrap(xs[i]) < unwrap(ys[i])
          THEN <<Msg(rule, "", unwrap(xs[i]), unwrap(ys[i]))>>
          ELSE <<>>)
         \o zip_loop(xs, ys, rule, i + 1)

\* mutant of negative_loop: a value of zero is reported too
RECURSIVE negative_loop_le(_, _, _)
negative_loop_le(vals, rule, i) ==
    IF i > Len(vals) THEN <<>>
    ELSE IF is_none(as_option(vals[i]))
    THEN negative_loop_le(vals, rule, i + 1)
    ELSE (IF unwrap(vals[i]) <= 0
          THEN <<Msg(rule, "", unwrap(vals[i]), 0)>>
          ELSE <<>>)
         \o negative_loop_le(vals, rule, i + 1)

\* for spd in &self.speed { .. } and for cld in &self.cloud_fraction { .. }
RECURSIVE negative_loop(_, _, _)
negative_loop(vals, rule, i) ==
    IF i > Len(vals) THEN <<>>
    ELSE IF is_none(as_option(vals[i]))
    THEN negative_loop(vals, rule, i + 1)
    ELSE (IF unwrap(vals[i]) < 0
          THEN <<Msg(rule, "", unwrap(vals[i]), 0)>>
          ELSE <<>>)
         \o negative_loop(vals, rule, i + 1)

\* mutant of cin_check: a CIN of zero is reported
cin_check_ge(cins) ==
    IF as_option(cins) # None /\ as_option(cins)[1] >= 0
    THEN <<Msg("CINS > 0.0", "", as_option(cins)[1], 0)>>
    ELSE <<>>

\* Check that cin <= 0
cin_check(cins) ==
    IF as_option(cins) # None /\ as_option(cins)[1] > 0
    THEN <<Msg("CINS > 0.0", "", as_option(cins)[1], 0)>>
    ELSE <<>>

\* mutant of haines_check: 1 is taken for a good value
haines_check_from_1(hain) ==
    IF as_option_i32(hain) # None /\ ~(as_option_i32(hain)[1] \in 1..6)
    THEN <<Msg("Invalid Haines Index", "", as_option_i32(hain)[1], 0)>>
    ELSE <<>>

\* lib.rs: Check Haines Index = 2, 3, 4, 5, or 6
haines_check(hain) ==
    IF as_option_i32(hain) # None /\ ~(as_option_i32(hain)[1] \in 2..6)
    THEN <<Msg("Invalid Haines Index", "", as_option_i32(hain)[1], 0)>>
    ELSE <<>>

\* mutant of validate_result: the report stops at the first message
validate_result_first(error_msg) ==
    [ok |-> error_msg = <<>>,
     msgs |-> IF error_msg = <<>> THEN <<>> ELSE <<error_msg[1]>>]

\* if error_msg == "" { Ok(()) } else { Err(ValidationError(error_msg)) }
validate_result(error_msg) ==
    [ok |-> error_msg = <<>>, msgs |-> error_msg]

\* Sounding::validate of sounding.rs
validate(s) ==
    validate_result(
        pressure_required(s.pressure)
        \o validate_vector_len(s.temperature, Len(s.pressure), "Temperature")
        \o validate_vector_len(s.wet_bulb, Len(s.pressure), "Wet bulb temperature")
        \o validate_vector_len(s.dew_point, Len(s.pressure), "Dew point")
        \o validate_vector_len(s.theta_e, Len(s.pressure), "Theta-e")
        \o validate_vector_len(s.direction, Len(s.pressure), "Wind direction")
        \o validate_vector_len(s.speed, Len(s.pressure), "wind speed")
        \o validate_vector_len(s.omega, Len(s.pressure), "Omega (pressure vertical velocity)")
        \o validate_vector_len(s.height, Len(s.pressure), "Height")
        \o validate_vector_len(s.cloud_fraction, Len(s.pressure), "Cloud fraction")
        \o pressure_loop(s.pressure, 1, pressure_start(s))
        \o height_loop(s.height, 1, F_MIN)
        \o zip_loop(s.temperature, s.wet_bulb, "Temperature < Wet bulb", 1)
        \o zip_loop(s.temperature, s.dew_point, "Temperature < Dew Point", 1)
        \o zip_loop(s.wet_bulb, s.dew_point, "Wet bulb < Dew Point", 1)
        \o negative_loop(s.speed, "Wind speed < 0", 1)
        \o negative_loop(s.cloud_fraction, "Cloud fraction < 0", 1)
        \o validate_f64_positive(s.cape, "CAPE")
        \o validate_f64_positive(s.pwat, "PWAT")
        \o cin_check(s.cins)
        \o validate_f64_positive(s.low_cloud, "low cloud")
        \o validate_f64_positive(s.mid_cloud, "mid cloud")
        \o validate_f64_positive(s.hi_cloud, "hi cloud"))

\* Sounding::validate of lib.rs
validate_lib(s) ==
    validate_result(
        pressure_required(s.pressure)
        \o validate_vector_len(s.temperature, Len(s.pressure), "Temperature")
        \o validate_vector_len(s.wet_bulb, Len(s.pressure), "Wet bulb temperature")
        \o validate_vector_len(s.dew_point, Len(s.pressure), "Dew point")
        \o validate_vector_len(s.theta_e, Len(s.pressure), "Theta-e")
        \o validate_vector_len(s.direction, Len(s.pressure), "Wind direction")
        \o validate_vector_len(s.speed, Len(s.pressure), "wind speed")
        \o validate_vector_len(s.omega, Len(s.pressure), "Omega (pressure vertical velocity)")
        \o validate_vector_len(s.height, Len(s.pressure), "Height")
        \o validate_vector_len(s.cloud_fraction, Len(s.pressure), "Cloud fraction")
        \o pressure_loop(s.pressure, 1, pressure_start(s))
        \o height_loop(s.height, 1, F_MIN)
        \o zip_loop(s.temperature, s.wet_bulb, "Temperature < Wet bulb", 1)
        \o zip_loop(s.temperature, s.dew_point, "Temperature < Dew Point", 1)
        \o zip_loop(s.wet_bulb, s.dew_point, "Wet bulb < Dew Point", 1)
        \o negative_loop(s.speed, "Wind speed < 0", 1)
        \o negative_loop(s.cloud_fraction, "Cloud fraction < 0", 1)
        \o validate_f32_positive(s.cape, "CAPE")
        \o validate_f32_positive(s.pwat, "PWAT")
        \o cin_check(s.cins)
        \o haines_check(s.hain)
        \o validate_f32_positive(s.low_cloud, "low cloud")
        \o validate_f32_positive(s.mid_cloud, "mid cloud")
        \o validate_f32_positive(s.hi_cloud, "hi cloud"))

(***************************************************************************)
(* tests/validation_test.rs: the fixtures.                                 *)
(***************************************************************************)
\* create_valid_test_sounding (brch is 1.2 in the source, a value validate
\* never reads; the model keeps its integer part)
create_valid_test_sounding ==
    [num |-> 1, valid_time |-> None, lead_time |-> 0,
     lat |-> 45, lon |-> -115, elevation |-> 1023,
     show |-> -2, li |-> -2, swet |-> 35, kinx |-> 45, lclp |-> 850,
     pwat |-> 2, totl |-> 55, cape |-> 852, lclt |-> 12, cins |-> -200,
     eqlv |-> 222, lfc |-> 800, brch |-> 1, hain |-> 6,
     pressure |-> <<840, 800, 700, 500, 300, 250, 200, 100>>,
     temperature |-> <<20, 15, 2, -10, -20, -30, -50, -45>>,
     wet_bulb |-> <<20, 14, 1, -11, -25, -39, -58, -60>>,
     dew_point |-> <<20, 13, 0, -12, -27, -45, -62, -80>>,
     theta_e |-> <<>>,
     direction |-> <<0, 40, 80, 120, 160, 200, 240, 280>>,
     speed |-> <<5, 10, 15, 12, 27, 45, 62, 80>>,
     omega |-> <<>>,
     height |-> <<100, 200, 300, 400, 500, 650, 700, 800>>,
     cloud_fraction |-> <<100, 85, 70, 50, 30, 25, 20, 10>>,
     mslp |-> 1014, station_pres |-> 847,
     low_cloud |-> MISSING_f32, mid_cloud |-> MISSING_f32,
     hi_cloud |-> MISSING_f32, uwind |-> 0, vwind |-> 0]

\* create_invalid_test_sounding
create_invalid_test_sounding ==
    [create_valid_test_sounding EXCEPT !.hain = 1]

(***************************************************************************)
(* The inputs the model draws from.                                        *)
(***************************************************************************)
\* profiles handed to set_profile: empty, and one to three levels with
\* present and missing values
ProfileInputs ==
    {<<>>, <<1>>, <<3, 2>>, <<MISSING, 2>>, <<3, 2, 1>>, <<1, MISSING, 2>>}

\* values handed to set_surface_value, as Option<f64>
SurfaceInputs == {None, Some(1), Some(5)}

\* values handed to set_index, as Option<f64>
IndexInputs == {None, Some(1)}

\* (latitude, longitude, elevation) handed to set_location
LocationInputs == {<<MISSING, MISSING, MISSING>>, <<45, -115, 1023>>}

\* station numbers and lead times, as Option<i32>
IntInputs == {None, Some(1)}

\* valid times, as Option<NaiveDateTime> (a time is a number of hours)
TimeInputs == {None, Some(12)}

\* row indexes asked of get_data_row: around every profile length, and the
\* largest usize
RowIdx == 0..4 \cup {USIZE_MAX}

\* values a cell is built from, around the sentinel and around zero
CellVals ==
    {MISSING_f32 - 2, MISSING_f32 - 1, MISSING_f32, MISSING_f32 + 1,
     MISSING_f32 + 2, -2, -1, 0, 1, 2, 847, 1014}

\* the value in an OptionVal<f64> made from an Option<f64>
cell_f64(o) == OptionVal_from_option("f32", o).value

\* the value in an OptionVal<i32> made from an Option<i32>
cell_i32(o) == OptionVal_from_option("i32", o).value

\* struct-update edits of the fixture, `Sounding { field: value, ..base }`:
\* a profile is dropped, loses its last level, or gets one level (1-based)
\* replaced by a missing or a negative value; a wind speed or a cloud
\* fraction is also set to zero
LevelEdits == {<<2, MISSING>>, <<2, -1>>, <<8, -1>>}

VecEdits(v) ==
    IF Len(v) = 0
    THEN {<<300, 310>>, <<300, 310, 320, 330, 340, 350, 360, 370>>}
    ELSE {<<>>, SubSeq(v, 1, Len(v) - 1)}
         \cup {[v EXCEPT ![e[1]] = e[2]] : e \in {x \in LevelEdits : x[1] <= Len(v)}}

FieldEdits(s) ==
    UNION {{<<f, v>> : v \in VecEdits(s[f])} : f \in ProfileFields}
    \cup {<<f, v>> : f \in {"cape", "pwat", "cins"}, v \in {MISSING, -1, 0, 1}}
    \cup {<<f, v>> : f \in {"low_cloud", "mid_cloud", "hi_cloud"}, v \in {-1, 0}}
    \cup {<<"hain", v>> : v \in {MISSING_i32, 1, 2, 7}}
    \cup {<<"station_pres", v>> : v \in {MISSING, 840, 830}}
    \cup {<<f, [s[f] EXCEPT ![2] = 0]>> :
              f \in {g \in {"speed", "cloud_fraction"} : Len(s[g]) >= 2}}

(***************************************************************************)
(* The state machine.                                                      *)
(***************************************************************************)
NoCall == [op |-> "none", var |-> "", value |-> MISSING, values |-> <<>>]
NoIter == [state |-> "none", kind |-> "", next |-> 0, direction |-> 0,
           rows |-> <<>>, nones |-> 0]
NoRow == [op |-> "none", idx |-> 0, out |-> None]
NoResult == [op |-> "none", ok |-> TRUE, msgs |-> <<>>]
NoCell == [op |-> "none", arg |-> None,
           cell |-> OptionVal_default("f32"), converted |-> FALSE,
           out |-> None]

Init ==
    /\ snd = Sounding_new
    /\ calls = 0
    /\ last = NoCall
    /\ it = NoIter
    /\ row = NoRow
    /\ vres = NoResult
    /\ cell = NoCell

\* no iterator borrows the sounding and no result of a query is held
Idle == it.state = "none" /\ row.op = "none" /\ vres.op = "none"

\* snd = snd.set_profile(var, values)
SetProfile(var, values) ==
    /\ Idle /\ calls < MaxCalls
    /\ snd' = set_profile(snd, var, values)
    /\ calls' = calls + 1
    /\ last' = [op |-> "set_profile", var |-> var, value |-> MISSING,
                values |-> values]
    /\ UNCHANGED <<it, row, vres, cell>>

\* snd = snd.set_surface_value(var, value)
SetSurfaceValue(var, value) ==
    /\ Idle /\ calls < MaxCalls
    /\ snd' = set_surface_value(snd, var, cell_f64(value))
    /\ calls' = calls + 1
    /\ last' = [op |-> "set_surface_value", var |-> var,
                value |-> cell_f64(value), values |-> <<>>]
    /\ UNCHANGED <<it, row, vres, cell>>

\* snd = snd.set_index(var, value), in a build with or without debug
\* assertions; a panic in the _not_used arm would end the program
SetIndex(var, value, debug_assertions) ==
    /\ Idle /\ calls < MaxCalls
    /\ LET panicked == var \notin StoredIndex /\ not_used_panics(debug_assertions)
       IN  /\ snd' = IF panicked THEN snd ELSE set_index(snd, var, cell_f64(value))
           /\ last' = [op |-> "set_index", var |-> var,
                       value |-> cell_f64(value), values |-> <<>>,
                       debug_assertions |-> debug_assertions,
                       panicked |-> panicked]
           /\ it' = IF panicked
                    THEN [NoIter EXCEPT !.state = "panicked", !.kind = "set_index"]
                    ELSE it
    /\ calls' = calls + 1
    /\ UNCHANGED <<row, vres, cell>>

\* snd = snd.set_location(latitude, longitude, elevation)
SetLocation(loc) ==
    /\ Idle /\ calls < MaxCalls
    /\ snd' = set_location(snd, loc[1], loc[2], loc[3])
    /\ calls' = calls + 1
    /\ last' = [op |-> "set_location", var |-> "", value |-> MISSING,
                values |-> loc]
    /\ UNCHANGED <<it, row, vres, cell>>

\* snd = snd.set_station_num(station_num)
SetStationNum(station_num) ==
    /\ Idle /\ calls < MaxCalls
    /\ snd' = set_station_num(snd, cell_i32(station_num))
    /\ calls' = calls + 1
    /\ last' = [op |-> "set_station_num", var |-> "",
                value |-> cell_i32(station_num), values |-> <<>>]
    /\ UNCHANGED <<it, row, vres, cell>>

\* snd = snd.set_lead_time(lt)
SetLeadTime(lt) ==
    /\ Idle /\ calls < MaxCalls
    /\ snd' = set_lead_time(snd, cell_i32(lt))
    /\ calls' = calls + 1
    /\ last' = [op |-> "set_lead_time", var |-> "",
                value |-> cell_i32(lt), values |-> <<>>]
    /\ UNCHANGED <<it, row, vres, cell>>

\* snd = snd.set_valid_time(valid_time)
SetValidTime(valid_time) ==
    /\ Idle /\ calls < MaxCalls
    /\ snd' = set_valid_time(snd, valid_time)
    /\ calls' = calls + 1
    /\ last' = [op |-> "set_valid_time", var |-> "", value |-> MISSING,
                values |-> valid_time]
    /\ UNCHANGED <<it, row, vres, cell>>

Next ==
    \/ \E var \in Profile, values \in ProfileInputs : SetProfile(var, values)
    \/ \E var \in Surface, value \in SurfaceInputs : SetSurfaceValue(var, value)
    \/ \E var \in Index, value \in IndexInputs, debug_assertions \in BOOLEAN :
           SetIndex(var, value, debug_assertions)
    \/ \E loc \in LocationInputs : SetLocation(loc)
    \/ \E n \in IntInputs : SetStationNum(n)
    \/ \E lt \in IntInputs : SetLeadTime(lt)
    \/ \E t \in TimeInputs : SetValidTime(t)

\* Sounding::new() followed by setter calls
Spec == Init /\ [][Next]_vars

(***************************************************************************)
(* Rows and iterators over a sounding built with set_profile.              *)
(***************************************************************************)
\* let r = snd.get_data_row(idx)
GetDataRow(idx) ==
    /\ Idle
    /\ row' = [op |-> "get_data_row", idx |-> idx,
               out |-> get_data_row(snd, idx)]
    /\ UNCHANGED <<snd, calls, last, it, vres, cell>>

\* let it = snd.bottom_up()
BottomUp ==
    /\ Idle
    /\ it' = [state |-> "live", kind |-> "bottom_up",
              next |-> bottom_up(snd).next,
              direction |-> bottom_up(snd).direction,
              rows |-> <<>>, nones |-> 0]
    /\ UNCHANGED <<snd, calls, last, row, vres, cell>>

\* let it = snd.top_down(): `self.pressure.len() - 1` panics on overflow in
\* a build with overflow checks (the debug profile) and wraps in one without
TopDown(overflow_checks) ==
    /\ Idle
    /\ it' = IF overflow_checks /\ sub_overflows(Len(snd.pressure), 1)
             THEN [NoIter EXCEPT !.state = "panicked", !.kind = "top_down"]
             ELSE [state |-> "live", kind |-> "top_down",
                   next |-> top_down(snd).next,
                   direction |-> top_down(snd).direction,
                   rows |-> <<>>, nones |-> 0]
    /\ UNCHANGED <<snd, calls, last, row, vres, cell>>

\* it.next(): a row is appended to what the iterator has yielded, a None is
\* counted; the iterator may be called MaxExtra more times after a None
IterNext ==
    /\ it.state = "live" /\ it.nones <= MaxExtra
    /\ LET item == next_item(snd, it)
           after == next_iter(snd, it)
       IN  it' = [it EXCEPT !.next = after.next,
                            !.rows = IF item = None THEN @ ELSE Append(@, item[1]),
                            !.nones = IF item = None THEN @ + 1 ELSE @]
    /\ UNCHANGED <<snd, calls, last, row, vres, cell>>

\* the iterator or the result of the last query goes out of scope
Discard ==
    /\ it.state # "panicked"
    /\ ~Idle
    /\ it' = NoIter /\ row' = NoRow /\ vres' = NoResult
    /\ UNCHANGED <<snd, calls, last, cell>>

NextRows ==
    \/ \E var \in Profile, values \in ProfileInputs : SetProfile(var, values)
    \/ \E idx \in RowIdx : GetDataRow(idx)
    \/ BottomUp
    \/ \E overflow_checks \in BOOLEAN : TopDown(overflow_checks)
    \/ IterNext
    \/ Discard

\* Sounding::new(), set_profile calls, and the row queries
SpecRows == Init /\ [][NextRows]_vars

(***************************************************************************)
(* Validation of the test fixture and of soundings a few struct updates    *)
(* away from it (the fields of lib.rs are public).                         *)
(***************************************************************************)
InitValidate ==
    /\ snd = create_valid_test_sounding
    /\ calls = 0
    /\ last = NoCall
    /\ it = NoIter
    /\ row = NoRow
    /\ vres = NoResult
    /\ cell = NoCell

\* snd = Sounding { field: value, ..snd }
StructUpdate(field, value) ==
    /\ Idle /\ calls < MaxCalls
    /\ snd' = [snd EXCEPT ![field] = value]
    /\ calls' = calls + 1
    /\ UNCHANGED <<last, it, row, vres, cell>>

\* let r = snd.validate(), sounding.rs
Validate ==
    /\ Idle
    /\ vres' = [op |-> "validate"] @@ validate(snd)
    /\ UNCHANGED <<snd, calls, last, it, row, cell>>

\* let r = snd.validate(), lib.rs
ValidateLib ==
    /\ Idle
    /\ vres' = [op |-> "validate_lib"] @@ validate_lib(snd)
    /\ UNCHANGED <<snd, calls, last, it, row, cell>>

NextValidate ==
    \/ calls < MaxCalls /\ \E e \in FieldEdits(snd) : StructUpdate(e[1], e[2])
    \/ Validate
    \/ ValidateLib
    \/ Discard

SpecValidate == InitValidate /\ [][NextValidate]_vars

(***************************************************************************)
(* Conversions of OptionVal<T>.                                            *)
(***************************************************************************)
\* let c = OptionVal::from(x)
CellFrom(T, x) ==
    /\ cell' = [op |-> "from", arg |-> Some(x), cell |-> OptionVal_from(T, x),
                converted |-> FALSE, out |-> None]
    /\ UNCHANGED <<snd, calls, last, it, row, vres>>

\* let c = OptionVal::from(o), o: Option<T>
CellFromOption(T, o) ==
    /\ cell' = [op |-> "from_option", arg |-> o,
                cell |-> OptionVal_from_option(T, o),
                converted |-> FALSE, out |-> None]
    /\ UNCHANGED <<snd, calls, last, it, row, vres>>

\* let c = OptionVal::default()
CellDefault(T) ==
    /\ cell' = [op |-> "default", arg |-> None, cell |-> OptionVal_default(T),
                converted |-> FALSE, out |-> None]
    /\ UNCHANGED <<snd, calls, last, it, row, vres>>

\* let o: Option<T> = c.into()
CellInto ==
    /\ cell.op # "none" /\ ~cell.converted
    /\ cell' = [cell EXCEPT !.converted = TRUE,
                            !.out = OptionVal_into(cell.cell)]
    /\ UNCHANGED <<snd, calls, last, it, row, vres>>

NextCell ==
    \/ \E T \in Types, x \in CellVals : CellFrom(T, x)
    \/ \E T \in Types, o \in {None} \cup {Some(x) : x \in CellVals} :
           CellFromOption(T, o)
    \/ \E T \in Types : CellDefault(T)
    \/ CellInto

SpecCell == Init /\ [][NextCell]_vars

(***************************************************************************)
(* sounding.rs: the queries by pressure, fetch_nearest_pnt and             *)
(* linear_interpolate.                                                     *)
(***************************************************************************)
\* f64::abs
abs(x) == IF x < 0 THEN -x ELSE x

\* mutant of nearest_loop: a level at the same distance replaces the best
RECURSIVE nearest_loop_le(_, _, _, _, _)
nearest_loop_le(pressure, target_p, i, idx, best_abs_diff) ==
    IF i >= Len(pressure) THEN idx
    ELSE IF is_none(as_option(pressure[i + 1]))
    THEN nearest_loop_le(pressure, target_p, i + 1, idx, best_abs_diff)
    ELSE LET abs_diff == abs(target_p - unwrap(pressure[i + 1]))
             better == abs_diff <= best_abs_diff
             best == IF better THEN abs_diff ELSE best_abs_diff
             at == IF better THEN i ELSE idx
         IN  IF abs_diff > best
             THEN at
             ELSE nearest_loop_le(pressure, target_p, i + 1, at, best)

\* for (i, p) in self.pressure.iter().enumerate() { .. } of
\* fetch_nearest_pnt, from index i (0-based) on: the idx left by the loop
RECURSIVE nearest_loop(_, _, _, _, _)
nearest_loop(pressure, target_p, i, idx, best_abs_diff) ==
    IF i >= Len(pressure) THEN idx
    ELSE IF is_none(as_option(pressure[i + 1]))
    THEN nearest_loop(pressure, target_p, i + 1, idx, best_abs_diff)
    ELSE LET abs_diff == abs(target_p - unwrap(pressure[i + 1]))
             better == abs_diff < best_abs_diff
             best == IF better THEN abs_diff ELSE best_abs_diff
             at == IF better THEN i ELSE idx
         IN  IF abs_diff > best
             THEN at
             ELSE nearest_loop(pressure, target_p, i + 1, at, best)

\* Sounding::fetch_nearest_pnt, up to the unwrap(): the idx the loop leaves
\* and the Option<DataRow> that is unwrapped (a None panics)
fetch_nearest_pnt(s, target_p) ==
    LET idx == nearest_loop(s.pressure, target_p, 0, 0, F_MAX)
    IN  [idx |-> idx, out |-> get_data_row(s, idx)]

\* f64 division, to the nearest value of the integer grid (exact wherever
\* the divisor divides the dividend)
fdiv(a, b) ==
    LET n == IF b < 0 THEN -a ELSE a
        d == abs(b)
    IN  (2 * n + d) \div (2 * d)

\* for (i, p) in self.pressure.iter().enumerate() { .. } of
\* linear_interpolate, from index i (0-based) on: the bracket indexes the
\* loop leaves
RECURSIVE bracket_loop(_, _, _, _, _)
bracket_loop(pressure, target_p, i, below_idx, above_idx) ==
    IF i >= Len(pressure)
    THEN [below_idx |-> below_idx, above_idx |-> above_idx]
    ELSE IF is_none(as_option(pressure[i + 1]))
    THEN bracket_loop(pressure, target_p, i + 1, below_idx, above_idx)
    ELSE LET p == as_option(pressure[i + 1])[1]
             below == IF p > target_p THEN i ELSE below_idx
         IN  IF p < target_p
             THEN [below_idx |-> below, above_idx |-> i]
             ELSE bracket_loop(pressure, target_p, i + 1, below, above_idx)

\* mutant of linear_interp: the rise is taken downwards
linear_interp_down(res, s, blw_idx, abv_idx, run, dp, array) ==
    IF Len(s[array]) > abv_idx
    THEN IF /\ is_some(as_option(s[array][blw_idx + 1]))
            /\ is_some(as_option(s[array][abv_idx + 1]))
         THEN LET val_below == as_option(s[array][blw_idx + 1])[1]
                  val_above == as_option(s[array][abv_idx + 1])[1]
                  rise == val_below - val_above
              IN  [res EXCEPT ![array] = val_below + fdiv(dp * rise, run)]
         ELSE res
    ELSE res

\* macro linear_interp! (the temperature block is the same code inline)
linear_interp(res, s, blw_idx, abv_idx, run, dp, array) ==
    IF Len(s[array]) > abv_idx
    THEN IF /\ is_some(as_option(s[array][blw_idx + 1]))
            /\ is_some(as_option(s[array][abv_idx + 1]))
         THEN LET val_below == as_option(s[array][blw_idx + 1])[1]
                  val_above == as_option(s[array][abv_idx + 1])[1]
                  rise == val_above - val_below
              IN  [res EXCEPT ![array] = val_below + fdiv(dp * rise, run)]
         ELSE res
    ELSE res

(***************************************************************************)
(* The wind direction block of linear_interpolate.  An f64 of this block   *)
(* is a record [v, r]: v is its value on the model's grid (a sine or       *)
(* cosine in units of 1/10000, an angle in whole degrees) and r is what    *)
(* the f64 evaluation leaves besides it, in units of 2^-56: the f64 sine   *)
(* of 360 degrees is -2.4e-16, not 0.  r is tabulated for the directions   *)
(* the model draws (DirectionDegrees) from the IEEE-754 double evaluation  *)
(* of dir.to_radians().sin() and dir.to_radians().cos().                   *)
(***************************************************************************)
DirectionDegrees == {0, 10, 90, 180, 270, 350, 360}

\* 10000 * sin(d degrees), d in 0..90
SinTable ==
    <<0, 175, 349, 523, 698, 872, 1045, 1219, 1392, 1564, 1736, 1908, 2079,
      2250, 2419, 2588, 2756, 2924, 3090, 3256, 3420, 3584, 3746, 3907,
      4067, 4226, 4384, 4540, 4695, 4848, 5000, 5150, 5299, 5446, 5592,
      5736, 5878, 6018, 6157, 6293, 6428, 6561, 6691, 6820, 6947, 7071,
      7193, 7314, 7431, 7547, 7660, 7771, 7880, 7986, 8090, 8192, 8290,
      8387, 8480, 8572, 8660, 8746, 8829, 8910, 8988, 9063, 9135, 9205,
      9272, 9336, 9397, 9455, 9511, 9563, 9613, 9659, 9703, 9744, 9781,
      9816, 9848, 9877, 9903, 9925, 9945, 9962, 9976, 9986, 9994, 9998,
      10000>>

\* sine and cosine of a whole number of degrees in 0..360, on the grid
sin_deg(d) ==
    IF d <= 90 THEN SinTable[d + 1]
    ELSE IF d <= 180 THEN SinTable[(180 - d) + 1]
    ELSE IF d <= 270 THEN -SinTable[(d - 180) + 1]
    ELSE -SinTable[(360 - d) + 1]

cos_deg(d) == sin_deg((d + 90) % 360)

\* what the f64 sine and cosine leave besides the grid value
sin_residue(d) ==
    CASE d = 10 -> -1
      [] d = 180 -> 9
      [] d = 350 -> -3
      [] d = 360 -> -18
      [] OTHER -> 0

cos_residue(d) ==
    CASE d = 10 -> -3
      [] d = 90 -> 4
      [] d = 270 -> -13
      [] d = 350 -> -3
      [] OTHER -> 0

\* dir.to_radians().sin() and dir.to_radians().cos()
sin_f64(dir) == [v |-> sin_deg(dir), r |-> sin_residue(dir)]
cos_f64(dir) == [v |-> cos_deg(dir), r |-> cos_residue(dir)]

\* below + dp * (above - below) / run
component_interp(below, above, run, dp) ==
    [v |-> below.v + fdiv(dp * (above.v - below.v), run),
     r |-> below.r + fdiv(dp * (above.r - below.r), run)]

sign(x) == IF x < 0 THEN -1 ELSE IF x > 0 THEN 1 ELSE 0

\* the whole number of degrees in 0..180 nearest to the angle between the
\* vector (x, y) and the y axis
angle_from_y(x, y) ==
    LET a == IF abs(x) <= abs(y) THEN abs(x) ELSE abs(y)
        b == IF abs(x) <= abs(y) THEN abs(y) ELSE abs(x)
        dot(k) == a * sin_deg(k) + b * cos_deg(k)
        k == CHOOSE k \in 0..45 :
                 \A j \in 0..45 : dot(k) > dot(j) \/ (dot(k) = dot(j) /\ k <= j)
        phi == IF abs(x) <= abs(y) THEN k ELSE 90 - k
    IN  IF y < 0 THEN 180 - phi ELSE phi

\* x.atan2(y).to_degrees(): an angle in -180..180
atan2_deg(x, y) ==
    IF x.v = 0 /\ y.v = 0
    THEN IF x.r = 0 /\ y.r = 0
         THEN [v |-> 0, r |-> 0]
         ELSE [v |-> IF x.r < 0 THEN -angle_from_y(x.r, y.r)
                     ELSE angle_from_y(x.r, y.r),
               r |-> 0]
    ELSE IF x.v = 0 /\ y.v < 0
    THEN IF x.r < 0 THEN [v |-> -180, r |-> 1] ELSE [v |-> 180, r |-> -sign(x.r)]
    ELSE [v |-> IF x.v < 0 THEN -angle_from_y(x.v, y.v)
                ELSE angle_from_y(x.v, y.v),
          r |-> sign(y.v * x.r - x.v * y.r)]

\* dir < 0.0 and dir > 360.0
lt_zero(dir) == dir.v < 0 \/ (dir.v = 0 /\ dir.r < 0)
gt_360(dir) == dir.v > 360 \/ (dir.v = 360 /\ dir.r > 0)

\* dir += 360.0 and dir -= 360.0: the f64 sum is rounded to the nearest
\* f64, and what dir carries besides its grid value is far below the
\* spacing of the f64 values near 360 (5.7e-14)
add_360(dir) == [v |-> dir.v + 360, r |-> 0]
sub_360(dir) == [v |-> dir.v - 360, r |-> 0]

\* while dir < 0.0 { dir += 360.0; }
RECURSIVE while_lt_zero(_)
while_lt_zero(dir) == IF lt_zero(dir) THEN while_lt_zero(add_360(dir)) ELSE dir

\* while dir > 360.0 { dir -= 360.0; }
RECURSIVE while_gt_360(_)
while_gt_360(dir) == IF gt_360(dir) THEN while_gt_360(sub_360(dir)) ELSE dir

\* mutant of direction_interp: the angle is interpolated as a scalar
direction_interp_scalar(res, s, blw_idx, abv_idx, run, dp) ==
    linear_interp(res, s, blw_idx, abv_idx, run, dp, "direction")

\* the block `Special interpolation for anlges`
direction_interp(res, s, blw_idx, abv_idx, run, dp) ==
    IF Len(s.direction) > abv_idx
    THEN IF /\ is_some(as_option(s.direction[blw_idx + 1]))
            /\ is_some(as_option(s.direction[abv_idx + 1]))
         THEN LET dir_below == as_option(s.direction[blw_idx + 1])[1]
                  dir_above == as_option(s.direction[abv_idx + 1])[1]
                  x_dir == component_interp(sin_f64(dir_below),
                                            sin_f64(dir_above), run, dp)
                  y_dir == component_interp(cos_f64(dir_below),
                                            cos_f64(dir_above), run, dp)
                  dir == while_gt_360(while_lt_zero(atan2_deg(x_dir, y_dir)))
              IN  [res EXCEPT !.direction = dir.v]
         ELSE res
    ELSE res

\* Sounding::linear_interpolate
linear_interpolate(s, target_p) ==
    LET result == [DataRow_default EXCEPT !.pressure = target_p]
        b == bracket_loop(s.pressure, target_p, 0, 0, 0)
        below_idx == b.below_idx
        above_idx == b.above_idx
    IN  IF above_idx # 0
        THEN LET p_below == unwrap(s.pressure[below_idx + 1])
                 p_above == unwrap(s.pressure[above_idx + 1])
                 run == p_above - p_below
                 dp == target_p - p_below
                 r1 == linear_interp(result, s, below_idx, above_idx, run, dp, "temperature")
                 r2 == linear_interp(r1, s, below_idx, above_idx, run, dp, "wet_bulb")
                 r3 == linear_interp(r2, s, below_idx, above_idx, run, dp, "dew_point")
                 r4 == linear_interp(r3, s, below_idx, above_idx, run, dp, "theta_e")
                 r5 == direction_interp(r4, s, below_idx, above_idx, run, dp)
                 r6 == linear_interp(r5, s, below_idx, above_idx, run, dp, "speed")
                 r7 == linear_interp(r6, s, below_idx, above_idx, run, dp, "omega")
                 r8 == linear_interp(r7, s, below_idx, above_idx, run, dp, "height")
                 r9 == linear_interp(r8, s, below_idx, above_idx, run, dp, "cloud_fraction")
             IN  r9
        ELSE result

(***************************************************************************)
(* The queries by pressure on a sounding built with set_profile.           *)
(***************************************************************************)
\* pressure profiles: empty, decreasing, with a missing level in the
\* middle and at the bottom, with two equal levels, not monotonic, and
\* all missing
QueryPressures ==
    {<<>>, <<10, 8, 6>>, <<10, MISSING, 6>>, <<MISSING, 10, 6>>,
     <<10, 8, 8, 4>>, <<6, 10, 8>>, <<MISSING, MISSING>>}

\* profiles of the linearly interpolated variables
QueryValues ==
    {<<0, 12, 24>>, <<24, MISSING, -12>>, <<12, 0>>, <<0, 12, 24, 36>>}

\* wind direction profiles, of directions in DirectionDegrees
QueryDirections ==
    {<<350, 10, 350>>, <<360, 360, 0>>, <<270, 0, 90>>, <<0, 180, MISSING>>,
     <<90, 270, 360, 180>>}

\* the profiles the queries are run on, and the vectors each is given
QueryProfiles == {"Pressure", "Temperature", "WetBulb", "WindDirection", "CloudFraction"}

QueryInputs(var) ==
    IF var = "Pressure" THEN QueryPressures
    ELSE IF var = "WindDirection" THEN QueryDirections
    ELSE QueryValues

\* target pressures: between, on and beyond the levels
QueryTargets == {3, 5, 6, 7, 8, 9, 10, 12}

\* let r = snd.fetch_nearest_pnt(target_p): unwrap() of a None panics
FetchNearestPnt(target_p) ==
    /\ Idle
    /\ LET r == fetch_nearest_pnt(snd, target_p)
       IN  /\ row' = [op |-> "fetch_nearest_pnt", idx |-> r.idx,
                      target_p |-> target_p, out |-> r.out]
           /\ it' = IF r.out = None
                    THEN [NoIter EXCEPT !.state = "panicked",
                                        !.kind = "fetch_nearest_pnt"]
                    ELSE it
    /\ UNCHANGED <<snd, calls, last, vres, cell>>

\* let r = snd.linear_interpolate(target_p)
LinearInterpolate(target_p) ==
    /\ Idle
    /\ row' = [op |-> "linear_interpolate", idx |-> 0,
               target_p |-> target_p,
               out |-> Some(linear_interpolate(snd, target_p))]
    /\ UNCHANGED <<snd, calls, last, it, vres, cell>>

NextQuery ==
    \/ \E var \in QueryProfiles :
           \E values \in QueryInputs(var) : SetProfile(var, values)
    \/ \E target_p \in QueryTargets : FetchNearestPnt(target_p)
    \/ \E target_p \in QueryTargets : LinearInterpolate(target_p)
    \/ Discard

\* Sounding::new(), set_profile calls, and the queries by pressure
SpecQuery == Init /\ [][NextQuery]_vars

(***************************************************************************)
(* The claims.                                                             *)
(***************************************************************************)
Reverse(q) == [i \in 1..Len(q) |-> q[Len(q) + 1 - i]]

\* the profile that holds the same physical quantity as a surface value
CorrelatedProfile(var) == IF var = "StationPressure" THEN "Pressure" ELSE ""

\* the surface value that holds the same physical quantity as a profile
CorrelatedSurface(var) == IF var = "Pressure" THEN "StationPressure" ELSE ""

\* C1: converting a cell to an option yields None if and only if the stored
\* value is the type's MISSING sentinel, and Some(stored value) otherwise;
\* so a cell made from Some(x), x not the sentinel, reads back as Some(x), a
\* cell made from None reads back as None, the default cell is missing, and
\* a cell made from the sentinel itself reads back as None.
C1_IntoOptionIsNoneIffSentinel ==
    cell.converted =>
        /\ (cell.out = None) <=> (unwrap_cell(cell.cell) = MISSING_of(cell.cell.ty))
        /\ cell.out # None => cell.out = Some(unwrap_cell(cell.cell))
        /\ (cell.op = "from_option" /\ cell.arg # None
                /\ cell.arg[1] # MISSING_of(cell.cell.ty))
               => cell.out = cell.arg
        /\ (cell.op = "from_option" /\ cell.arg = None) => cell.out = None
        /\ cell.op = "default" => cell.out = None
        /\ (cell.op = "from" /\ cell.arg = Some(MISSING_of(cell.cell.ty)))
               => cell.out = None
        /\ (cell.op = "from" /\ cell.arg # Some(MISSING_of(cell.cell.ty)))
               => cell.out = cell.arg

\* a cell made from Some(x) below the sentinel has been read back as Some(x)
C1_Witness ==
    /\ cell.converted
    /\ cell.op = "from_option"
    /\ cell.arg = Some(MISSING_f32 - 1)
    /\ cell.out = Some(MISSING_f32 - 1)

\* C2 as stated: after any sequence of setter calls from Sounding::new(),
\* every profile has length 0 or the length of the pressure profile.
C2_ProfileLengthsAgree ==
    \A var \in Profile :
        Len(get_profile(snd, var)) \in {0, Len(get_profile(snd, "Pressure"))}

\* C2 as amended: after any sequence of setter calls from Sounding::new()
\* that leaves a sounding validate() accepts, every profile has length 0 or
\* the length of the pressure profile.
C2_ValidatedProfileLengthsAgree ==
    validate(snd).ok =>
        \A var \in Profile :
            Len(get_profile(snd, var)) \in {0, Len(get_profile(snd, "Pressure"))}

\* two setter calls have built a sounding validate() accepts, with a second
\* profile as long as the pressure profile
C2_Witness ==
    /\ calls = 2
    /\ validate(snd).ok
    /\ Len(get_profile(snd, "Pressure")) = 2
    /\ Len(get_profile(snd, "Temperature")) = 2

\* C3 as stated: set_surface_value for a surface quantity with a correlated
\* profile, called when that profile is non-empty, leaves index 0 of the
\* profile equal to the new surface value.
C3_SurfaceValueOverwritesLevel0 ==
    (/\ last.op = "set_surface_value"
     /\ CorrelatedProfile(last.var) # ""
     /\ Len(get_profile(snd, CorrelatedProfile(last.var))) > 0)
        => get_profile(snd, CorrelatedProfile(last.var))[1] = last.value

\* C3 as amended: set_surface_value(S, x) stores x as the surface value S
\* and leaves every profile as it was, index 0 of the correlated profile
\* included.
C3_SurfaceValueLeavesProfiles ==
    [][(calls' = calls + 1 /\ last'.op = "set_surface_value")
          => /\ get_surface_value(snd', last'.var) = last'.value
             /\ \A var \in Profile :
                    get_profile(snd', var) = get_profile(snd, var)]_vars

\* the station pressure was set to a value other than level 0 of a non-empty
\* pressure profile
C3_Witness ==
    /\ last.op = "set_surface_value"
    /\ last.var = "StationPressure"
    /\ last.value # MISSING
    /\ get_surface_value(snd, "StationPressure") = last.value
    /\ Len(get_profile(snd, "Pressure")) > 0
    /\ get_profile(snd, "Pressure")[1] # last.value

\* C4 as stated: set_profile(which, values) with non-empty values, called
\* when a surface value of the same quantity is present, stores the values
\* with the surface value in front, so index 0 is the surface value.
C4_SetProfilePrependsSurface ==
    (/\ last.op = "set_profile"
     /\ CorrelatedSurface(last.var) # ""
     /\ last.values # <<>>
     /\ is_some(as_option(get_surface_value(snd, CorrelatedSurface(last.var)))))
        => /\ get_profile(snd, last.var)
                = <<get_surface_value(snd, CorrelatedSurface(last.var))>>
                  \o last.values
           /\ get_profile(snd, last.var)[1]
                = get_surface_value(snd, CorrelatedSurface(last.var))

\* C4 as amended: set_profile(which, values) stores exactly the values it is
\* given, whether or not a surface value of the same quantity is present:
\* nothing is put in front, and index 0 of the stored profile is values[0].
C4_SetProfileStoresValues ==
    last.op = "set_profile" => get_profile(snd, last.var) = last.values

\* a non-empty pressure profile was set while a station pressure was
\* present, and index 0 of the profile is not the station pressure
C4_Witness ==
    /\ last.op = "set_profile"
    /\ last.var = "Pressure"
    /\ last.values # <<>>
    /\ is_some(as_option(get_surface_value(snd, "StationPressure")))
    /\ get_profile(snd, "Pressure") = last.values
    /\ get_profile(snd, "Pressure")[1] # get_surface_value(snd, "StationPressure")

\* C5: for every sounding, the empty default one included, get_data_row(idx)
\* is None for every idx >= the length of the pressure profile and a row for
\* every idx below it.
C5_RowIsNoneIffBeyondPressure ==
    row.op = "get_data_row" =>
        ((row.idx >= Len(get_profile(snd, "Pressure"))) <=> (row.out = None))

\* a row was asked at the length of the pressure profile, inside a longer
\* temperature profile, and None came back
C5_Witness ==
    /\ row.op = "get_data_row"
    /\ Len(get_profile(snd, "Pressure")) = 2
    /\ Len(get_profile(snd, "Temperature")) = 3
    /\ row.idx = 2
    /\ row.out = None

\* C6: for idx inside the pressure profile, each field of the row is the
\* idx-th element of its profile when the profile has more than idx
\* elements and is missing otherwise; the row has no other field.
C6_RowCopiesLevel ==
    (row.op = "get_data_row" /\ row.idx < Len(get_profile(snd, "Pressure")))
        => /\ row.out # None
           /\ DOMAIN row.out[1] = ProfileFields
           /\ \A f \in ProfileFields :
                  row.out[1][f] = IF Len(snd[f]) > row.idx
                                  THEN snd[f][row.idx + 1]
                                  ELSE MISSING

\* a row at index 1 took its pressure from the pressure profile and has a
\* missing temperature, the temperature profile having one level only
C6_Witness ==
    /\ row.op = "get_data_row"
    /\ row.idx = 1
    /\ Len(snd.pressure) = 3
    /\ Len(snd.temperature) = 1
    /\ row.out # None
    /\ row.out[1].pressure = snd.pressure[2]
    /\ row.out[1].pressure # MISSING
    /\ row.out[1].temperature = MISSING

\* C7: for every sounding, top_down() completes and the rows it yields are
\* the rows bottom_up() yields in reverse order; so its first row is the
\* last row of bottom_up().
C7_TopDownReversesBottomUp ==
    it.kind = "top_down" =>
        /\ it.state # "panicked"
        /\ it.nones > 0 => it.rows = Reverse(collect(snd, bottom_up(snd)))
        /\ it.rows # <<>> =>
               it.rows[1] = collect(snd, bottom_up(snd))[Len(snd.pressure)]

\* what holds of top_down() short of the overflow: when it does not panic,
\* its rows are those of bottom_up() reversed
TopDownReversesUnlessPanicked ==
    (it.kind = "top_down" /\ it.state # "panicked") =>
        /\ it.nones > 0 => it.rows = Reverse(collect(snd, bottom_up(snd)))
        /\ it.rows # <<>> =>
               it.rows[1] = collect(snd, bottom_up(snd))[Len(snd.pressure)]

(***************************************************************************)
(* The rules of validate, stated over a sounding without the loops.        *)
(***************************************************************************)
\* the levels (1-based) at which a profile has a present value
Present(v) == {i \in 1..Len(v) : v[i] # MISSING}

\* the nearest present level below level i, as a set of at most one level
Below(v, i) ==
    LET under == {j \in Present(v) : j < i}
    IN  {j \in under : \A k \in under : k <= j}

\* levels whose pressure exceeds the nearest present pressure below them,
\* the station pressure, when present, standing below level 1
PressureRises(s) ==
    {i \in Present(s.pressure) :
        \/ \E j \in Below(s.pressure, i) : s.pressure[j] < s.pressure[i]
        \/ /\ Below(s.pressure, i) = {}
           /\ s.station_pres # MISSING
           /\ s.station_pres < s.pressure[i]}

\* levels whose height is under the nearest present height below them
HeightDrops(s) ==
    {i \in Present(s.height) :
        \E j \in Below(s.height, i) : s.height[j] > s.height[i]}

\* levels at which xs and ys are both present and xs is under ys
Under(xs, ys) ==
    {i \in Present(xs) \cap Present(ys) : xs[i] < ys[i]}

\* levels with a present negative value
Negative(v) == {i \in Present(v) : v[i] < 0}

StrictlyDecreasingPressure(s) ==
    \A i, j \in Present(s.pressure) : i < j => s.pressure[i] > s.pressure[j]

NonDecreasingHeight(s) ==
    \A i, j \in Present(s.height) : i < j => s.height[i] <= s.height[j]

TemperatureOrdered(s) ==
    /\ Under(s.temperature, s.wet_bulb) = {}
    /\ Under(s.wet_bulb, s.dew_point) = {}
    /\ Under(s.temperature, s.dew_point) = {}

\* the three conditions C8 names
Ordered(s) ==
    /\ StrictlyDecreasingPressure(s)
    /\ NonDecreasingHeight(s)
    /\ TemperatureOrdered(s)

\* the conditions validate() checks beyond those three; the Haines index is
\* read by the validate() of lib.rs only
OtherRulesHold(s, op) ==
    /\ Len(s.pressure) > 0
    /\ \A f \in ProfileFields : Len(s[f]) \in {0, Len(s.pressure)}
    /\ \A i \in Present(s.pressure) :
           s.station_pres # MISSING => s.station_pres >= s.pressure[i]
    /\ Negative(s.speed) = {}
    /\ Negative(s.cloud_fraction) = {}
    /\ \A f \in {"cape", "pwat", "low_cloud", "mid_cloud", "hi_cloud"} :
           s[f] = MISSING \/ s[f] >= 0
    /\ s.cins = MISSING \/ s.cins <= 0
    /\ op = "validate_lib" => (s.hain = MISSING_i32 \/ s.hain \in 2..6)

\* the variables validate_vector_len! is applied to, with their names
LengthNames ==
    {<<"temperature", "Temperature">>, <<"wet_bulb", "Wet bulb temperature">>,
     <<"dew_point", "Dew point">>, <<"theta_e", "Theta-e">>,
     <<"direction", "Wind direction">>, <<"speed", "wind speed">>,
     <<"omega", "Omega (pressure vertical velocity)">>,
     <<"height", "Height">>, <<"cloud_fraction", "Cloud fraction">>}

\* the variables the positive check is applied to, with their names
PositiveNames ==
    {<<"cape", "CAPE">>, <<"pwat", "PWAT">>, <<"low_cloud", "low cloud">>,
     <<"mid_cloud", "mid cloud">>, <<"hi_cloud", "hi cloud">>}

Count(b) == IF b THEN 1 ELSE 0

\* the number of violations of each rule in a sounding, as a set of
\* <<rule, variable name, violations>>
Violations(s, op) ==
    {<<"Pressure variable required, none given.", "", Count(Len(s.pressure) = 0)>>,
     <<"Pressure increasing with height", "", Cardinality(PressureRises(s))>>,
     <<"Height values decreasing with height", "", Cardinality(HeightDrops(s))>>,
     <<"Temperature < Wet bulb", "", Cardinality(Under(s.temperature, s.wet_bulb))>>,
     <<"Temperature < Dew Point", "", Cardinality(Under(s.temperature, s.dew_point))>>,
     <<"Wet bulb < Dew Point", "", Cardinality(Under(s.wet_bulb, s.dew_point))>>,
     <<"Wind speed < 0", "", Cardinality(Negative(s.speed))>>,
     <<"Cloud fraction < 0", "", Cardinality(Negative(s.cloud_fraction))>>,
     <<"CINS > 0.0", "", Count(s.cins # MISSING /\ s.cins > 0)>>,
     <<"Invalid Haines Index", "",
       Count(op = "validate_lib" /\ s.hain # MISSING_i32 /\ ~(s.hain \in 2..6))>>}
    \cup {<<"array has different length than pressure array.", n[2],
            Count(Len(s[n[1]]) # 0 /\ Len(s[n[1]]) # Len(s.pressure))>> :
          n \in LengthNames}
    \cup {<<"< 0.0", n[2], Count(s[n[1]] # MISSING /\ s[n[1]] < 0)>> :
          n \in PositiveNames}

\* the messages of a report about a rule and a variable
Messages(msgs, rule, name) ==
    {i \in DOMAIN msgs : msgs[i].rule = rule /\ msgs[i].name = name}

\* C8 as stated: validate() returns Ok on every sounding with strictly
\* decreasing pressure, non-decreasing height and temperature >= wet bulb >=
\* dew point at every level.
C8_OrderedSoundingValidates ==
    (vres.op # "none" /\ Ordered(snd)) => vres.ok

\* C8 as amended: validate() returns Ok on every sounding with strictly
\* decreasing pressure, non-decreasing height and temperature >= wet bulb >=
\* dew point at every level that also has a non-empty pressure profile,
\* every other profile empty or as long as it, a station pressure that is
\* missing or not below any level's pressure, no negative wind speed, cloud
\* fraction, CAPE, precipitable water or low, mid or high cloud, a CIN that
\* is missing or <= 0 and, for the validate() of lib.rs, a Haines index that
\* is missing or within 2..6.
C8_SoundingKeepingAllRulesValidates ==
    (vres.op # "none" /\ Ordered(snd) /\ OtherRulesHold(snd, vres.op))
        => vres.ok

\* a sounding two updates away from the valid fixture, with a CIN of zero
\* and a missing level, was validated and accepted
C8_Witness ==
    /\ vres.op = "validate_lib"
    /\ calls = 2
    /\ snd.cins = 0
    /\ Len(snd.pressure) = 8 /\ snd.pressure[2] = MISSING
    /\ Ordered(snd) /\ OtherRulesHold(snd, vres.op)
    /\ vres.ok

\* C9: validate() (lib.rs) fails whenever the Haines index is present and
\* outside 2..6, whatever the other fields are, and its report mentions the
\* Haines index; a present Haines index within 2..6, or a missing one, adds
\* no message about it.
C9_HainesOutOfRangeFails ==
    vres.op = "validate_lib" =>
        IF snd.hain # MISSING_i32 /\ ~(snd.hain \in 2..6)
        THEN /\ ~vres.ok
             /\ Messages(vres.msgs, "Invalid Haines Index", "") # {}
             /\ \A i \in Messages(vres.msgs, "Invalid Haines Index", "") :
                    vres.msgs[i].a = snd.hain
        ELSE Messages(vres.msgs, "Invalid Haines Index", "") = {}

\* the invalid fixture (Haines index 1) was validated and rejected
C9_Witness ==
    /\ vres.op = "validate_lib"
    /\ snd = create_invalid_test_sounding
    /\ ~vres.ok
    /\ Messages(vres.msgs, "Invalid Haines Index", "") # {}

\* C10: validate() does not stop at the first violation: its report holds
\* one message for each violation of each rule and nothing else, and it
\* returns Ok if and only if there is no violation.
C10_ReportHoldsEveryViolation ==
    vres.op # "none" =>
        LET found == Violations(snd, vres.op)
        IN  /\ \A v \in found :
                   Cardinality(Messages(vres.msgs, v[1], v[2])) = v[3]
            /\ \A i \in DOMAIN vres.msgs :
                   \E v \in found :
                       v[1] = vres.msgs[i].rule /\ v[2] = vres.msgs[i].name
            /\ vres.ok <=> (\A v \in found : v[3] = 0)

\* a sounding breaking three rules was validated, and the report holds
\* messages of three rules
C10_Witness ==
    /\ vres.op = "validate"
    /\ ~vres.ok
    /\ Cardinality({v \in Violations(snd, vres.op) : v[3] > 0}) = 3
    /\ Cardinality({vres.msgs[i].rule : i \in DOMAIN vres.msgs}) = 3

(***************************************************************************)
(* The queries by pressure, stated without the loops.                      *)
(***************************************************************************)
\* the present pressures do not increase with the index
NonIncreasingPressure(s) ==
    \A i, j \in Present(s.pressure) : i < j => s.pressure[i] >= s.pressure[j]

\* the levels (1-based) with a present pressure at the least distance from
\* the target
Nearest(s, target_p) ==
    {i \in Present(s.pressure) :
        \A j \in Present(s.pressure) :
            abs(s.pressure[i] - target_p) <= abs(s.pressure[j] - target_p)}

\* the first level of a non-empty set of levels
First(levels) == CHOOSE i \in levels : \A j \in levels : i <= j

\* C11: on a sounding whose pressure profile is non-empty and whose present
\* pressures do not increase with the index, fetch_nearest_pnt(target)
\* returns the row of the first level, in stored order, among the levels
\* with a present pressure at the least distance from the target.
C11_NearestIsFirstMinimum ==
    (/\ row.op = "fetch_nearest_pnt"
     /\ Present(snd.pressure) # {}
     /\ NonIncreasingPressure(snd))
        => LET k == First(Nearest(snd, row.target_p))
           IN  /\ it.state # "panicked"
               /\ row.idx + 1 = k
               /\ row.out # None
               /\ \A f \in ProfileFields :
                      row.out[1][f] = IF Len(snd[f]) >= k THEN snd[f][k]
                                      ELSE MISSING

\* the target 6 is as far from the two levels at 8 as from the level at 4:
\* the first level at 8 was returned, with its temperature
C11_Witness ==
    /\ row.op = "fetch_nearest_pnt"
    /\ snd.pressure = <<10, 8, 8, 4>>
    /\ snd.temperature = <<0, 12, 24, 36>>
    /\ row.target_p = 6
    /\ row.idx = 1
    /\ row.out[1].temperature = 12

\* the levels (1-based) whose present pressure is the target
LevelsAt(s, target_p) == {k \in Present(s.pressure) : s.pressure[k] = target_p}

\* the variables of a row other than the pressure
RowFields == ProfileFields \ {"pressure"}

\* C12: interpolating at a target pressure that equals the pressure of a
\* stored level (of one level only) returns, for every variable present at
\* that level, the value stored at that level.
C12_ExactLevelReturnsStoredValues ==
    row.op = "linear_interpolate" =>
        \A k \in LevelsAt(snd, row.target_p) :
            LevelsAt(snd, row.target_p) = {k} =>
                \A f \in RowFields :
                    (Len(snd[f]) >= k /\ snd[f][k] # MISSING)
                        => row.out[1][f] = snd[f][k]

\* a row with the pressure set to the target and every other variable missing
PressureOnly(r, target_p) ==
    /\ r.pressure = target_p
    /\ \A f \in RowFields : r[f] = MISSING

\* C13: when the target is lower than every stored pressure, equals a
\* stored pressure, or is higher than every stored pressure, and on a
\* sounding with an empty pressure profile, the interpolation result has
\* the pressure set to the target and every other variable missing.
C13_NoUpperBracketGivesPressureOnly ==
    (/\ row.op = "linear_interpolate"
     /\ \/ \A k \in Present(snd.pressure) : row.target_p < snd.pressure[k]
        \/ LevelsAt(snd, row.target_p) # {}
        \/ \A k \in Present(snd.pressure) : row.target_p > snd.pressure[k])
        => PressureOnly(row.out[1], row.target_p)

\* the pairs <<below, above>> of levels (1-based) with present pressures,
\* no present pressure between them, that have the target strictly between
\* their pressures
Brackets(s, target_p) ==
    {b \in Present(s.pressure) \X Present(s.pressure) :
        /\ b[1] < b[2]
        /\ \A k \in Present(s.pressure) : ~(b[1] < k /\ k < b[2])
        /\ s.pressure[b[1]] > target_p
        /\ target_p > s.pressure[b[2]]}

DirectionBrackets(s, target_p) ==
    {b \in Brackets(s, target_p) :
        /\ Len(s.direction) >= b[2]
        /\ s.direction[b[1]] # MISSING
        /\ s.direction[b[2]] # MISSING}

\* the target is half way between the pressures of the bracket
MidPoint(s, b, target_p) ==
    2 * target_p = s.pressure[b[1]] + s.pressure[b[2]]

\* C15: an interpolated wind direction always lies in [0, 360) degrees, and
\* between 350 and 10 degrees, at the pressure midpoint, it is 0 (or 360),
\* never 180.
C15_DirectionIsCircularBelow360 ==
    (row.op = "linear_interpolate" /\ NonIncreasingPressure(snd)) =>
        \A b \in DirectionBrackets(snd, row.target_p) :
            /\ 0 <= row.out[1].direction
            /\ row.out[1].direction < 360
            /\ (/\ {snd.direction[b[1]], snd.direction[b[2]]} = {350, 10}
                /\ MidPoint(snd, b, row.target_p))
                   => (row.out[1].direction \in {0, 360}
                       /\ row.out[1].direction # 180)

\* C15 as amended: an interpolated wind direction always lies in [0, 360]
\* degrees, 360 included (`while dir > 360.0` leaves it), and between 350
\* and 10 degrees, at the pressure midpoint, it is 0 or 360, never 180.
C15_DirectionIsCircularUpTo360 ==
    (row.op = "linear_interpolate" /\ NonIncreasingPressure(snd)) =>
        \A b \in DirectionBrackets(snd, row.target_p) :
            /\ 0 <= row.out[1].direction
            /\ row.out[1].direction <= 360
            /\ (/\ {snd.direction[b[1]], snd.direction[b[2]]} = {350, 10}
                /\ MidPoint(snd, b, row.target_p))
                   => row.out[1].direction \in {0, 360}

\* half way between the level at 10 with 350 degrees and the level at 8
\* with 10 degrees the direction is 360
C15_Witness ==
    /\ row.op = "linear_interpolate"
    /\ snd.pressure = <<10, 8, 6>>
    /\ snd.direction = <<350, 10, 350>>
    /\ row.target_p = 9
    /\ row.out[1].direction = 360

C17_DebugBuildPanicsOnUnstoredIndex ==
    (last.op = "set_index" /\ last.var \notin StoredIndex)
        => (last.panicked <=> last.debug_assertions)

\* C18: validate() reports a length violation for exactly the profiles
\* other than pressure that are non-empty and of another length than the
\* pressure profile, once each; an empty profile is never reported as a
\* length mismatch; an empty pressure profile is itself reported; and a
\* report with such a message is a failure.
C18_LengthMismatchReported ==
    vres.op # "none" =>
        /\ \A n \in LengthNames :
               Cardinality(Messages(vres.msgs,
                   "array has different length than pressure array.", n[2]))
               = Count(Len(snd[n[1]]) # 0 /\ Len(snd[n[1]]) # Len(snd.pressure))
        /\ Cardinality(Messages(vres.msgs,
               "Pressure variable required, none given.", ""))
           = Count(Len(snd.pressure) = 0)
        /\ (\/ Len(snd.pressure) = 0
            \/ \E f \in ProfileFields :
                   Len(snd[f]) # 0 /\ Len(snd[f]) # Len(snd.pressure))
               => ~vres.ok

\* the fixture without its pressure profile was validated: the missing
\* pressure and the temperature's length are reported, the empty theta-e
\* profile is not
C18_Witness ==
    /\ vres.op = "validate"
    /\ Len(snd.pressure) = 0
    /\ Len(snd.temperature) = 8
    /\ Len(snd.theta_e) = 0
    /\ ~vres.ok
    /\ Messages(vres.msgs, "Pressure variable required, none given.", "") # {}
    /\ Messages(vres.msgs,
           "array has different length than pressure array.", "Temperature") # {}
    /\ Messages(vres.msgs,
           "array has different length than pressure array.", "Theta-e") = {}

\* the value standing below a level in the pressure check: the nearest
\* present pressure below it, else the station pressure when present
PressureBelow(s, i) ==
    IF Below(s.pressure, i) # {}
    THEN {s.pressure[j] : j \in Below(s.pressure, i)}
    ELSE IF s.station_pres # MISSING THEN {s.station_pres} ELSE {}

\* C19: validate() treats the station pressure, when present, as the
\* element before index 0 of the pressure profile, skips missing levels,
\* and reports a violation if and only if some present pressure is greater
\* than the nearest present pressure before it in that sequence, one
\* message for each such level; so it fails when the station pressure is
\* lower than the first present pressure of the profile.
C19_PressureRiseReported ==
    vres.op # "none" =>
        LET msgs == Messages(vres.msgs, "Pressure increasing with height", "")
        IN  /\ Cardinality(msgs) = Cardinality(PressureRises(snd))
            /\ \A m \in msgs :
                   \E i \in PressureRises(snd) :
                       /\ vres.msgs[m].b = snd.pressure[i]
                       /\ vres.msgs[m].a \in PressureBelow(snd, i)
            /\ \A i \in Present(snd.pressure) :
                   (\E q \in PressureBelow(snd, i) : q < snd.pressure[i])
                       <=> \E m \in msgs :
                               /\ vres.msgs[m].b = snd.pressure[i]
                               /\ vres.msgs[m].a \in PressureBelow(snd, i)
            /\ PressureRises(snd) # {} => ~vres.ok

\* the fixture with a station pressure of 830 under a first level of 840
\* was validated and rejected for it
C19_Witness ==
    /\ vres.op = "validate"
    /\ snd.station_pres = 830
    /\ snd.pressure[1] = 840
    /\ ~vres.ok
    /\ \E m \in DOMAIN vres.msgs :
           vres.msgs[m] = Msg("Pressure increasing with height", "", 830, 840)

\* the pairs of profiles checked for order, the first not under the second
OrderRules ==
    {<<"temperature", "wet_bulb", "Temperature < Wet bulb">>,
     <<"temperature", "dew_point", "Temperature < Dew Point">>,
     <<"wet_bulb", "dew_point", "Wet bulb < Dew Point">>}

\* the levels at which temperature, wet bulb and dew point are all present
AllThree(s) ==
    Present(s.temperature) \cap Present(s.wet_bulb) \cap Present(s.dew_point)

\* C20: validate() enforces temperature >= wet bulb >= dew point at each
\* level where all three are present: it fails whenever some such level is
\* out of order, and a level at which any of the three is missing
\* contributes no ordering violation.
C20_OrderCheckedWhereAllThreePresent ==
    vres.op # "none" =>
        /\ (\E i \in AllThree(snd) :
                ~(snd.temperature[i] >= snd.wet_bulb[i]
                  /\ snd.wet_bulb[i] >= snd.dew_point[i])) => ~vres.ok
        /\ \A r \in OrderRules :
               Cardinality(Messages(vres.msgs, r[3], ""))
               = Cardinality(Under(snd[r[1]], snd[r[2]]) \cap AllThree(snd))

\* C20 as amended: validate() enforces temperature >= wet bulb,
\* temperature >= dew point and wet bulb >= dew point separately, each at
\* the levels where both values of the pair are present: it fails whenever
\* some level with all three present is out of order, a level out of order
\* in two present values is reported even if the third is missing, and a
\* level where a value of a pair is missing contributes no violation for
\* that pair.
C20_OrderCheckedPairwise ==
    vres.op # "none" =>
        /\ (\E i \in AllThree(snd) :
                ~(snd.temperature[i] >= snd.wet_bulb[i]
                  /\ snd.wet_bulb[i] >= snd.dew_point[i])) => ~vres.ok
        /\ \A r \in OrderRules :
               LET msgs == Messages(vres.msgs, r[3], "")
                   under == Under(snd[r[1]], snd[r[2]])
               IN  /\ Cardinality(msgs) = Cardinality(under)
                   /\ \A m \in msgs :
                          \E i \in under :
                              /\ vres.msgs[m].a = snd[r[1]][i]
                              /\ vres.msgs[m].b = snd[r[2]][i]
                   /\ under # {} => ~vres.ok

\* the fixture with, at the second level, no dew point and a temperature
\* of -1 under the wet bulb of 14 was validated and rejected for that pair
C20_Witness ==
    /\ vres.op = "validate"
    /\ Len(snd.dew_point) = 8 /\ snd.dew_point[2] = MISSING
    /\ Len(snd.temperature) = 8 /\ snd.temperature[2] = -1
    /\ ~vres.ok
    /\ \E m \in DOMAIN vres.msgs :
           vres.msgs[m] = Msg("Temperature < Wet bulb", "", -1, 14)
    /\ Messages(vres.msgs, "Temperature < Dew Point", "") = {}

\* C21: validate() fails whenever a present wind speed or cloud fraction
\* of a level, the CAPE, the precipitable water or the low, mid or high
\* cloud is negative, or the CIN is present and positive, with one message
\* for each such value; values equal to zero and missing values add no
\* message.
C21_SignViolationsReported ==
    vres.op # "none" =>
        /\ \A r \in {<<"speed", "Wind speed < 0">>,
                      <<"cloud_fraction", "Cloud fraction < 0">>} :
               LET msgs == Messages(vres.msgs, r[2], "")
               IN  /\ Cardinality(msgs) = Cardinality(Negative(snd[r[1]]))
                   /\ \A m \in msgs :
                          \E i \in Negative(snd[r[1]]) :
                              vres.msgs[m].a = snd[r[1]][i]
                   /\ Negative(snd[r[1]]) # {} => ~vres.ok
        /\ \A n \in PositiveNames :
               /\ Cardinality(Messages(vres.msgs, "< 0.0", n[2]))
                  = Count(snd[n[1]] # MISSING /\ snd[n[1]] < 0)
               /\ (snd[n[1]] # MISSING /\ snd[n[1]] < 0) => ~vres.ok
        /\ Cardinality(Messages(vres.msgs, "CINS > 0.0", ""))
           = Count(snd.cins # MISSING /\ snd.cins > 0)
        /\ (snd.cins # MISSING /\ snd.cins > 0) => ~vres.ok

\* the fixture with a cloud fraction of zero at the second level and a
\* wind speed of -1 at the last was validated and rejected, with the one
\* message about the wind speed
C21_Witness ==
    /\ vres.op = "validate"
    /\ Len(snd.cloud_fraction) = 8 /\ snd.cloud_fraction[2] = 0
    /\ Len(snd.speed) = 8 /\ snd.speed[8] = -1
    /\ ~vres.ok
    /\ vres.msgs = <<Msg("Wind speed < 0", "", -1, 0)>>

\* the rows get_data_row gives for the indexes 0..n-1, n the number of
\* pressure levels, in ascending order
RowsAscending(s) ==
    [i \in 1..Len(s.pressure) |-> get_data_row(s, i - 1)[1]]

\* the rows an iterator of a kind is to yield
RowsOf(s, kind) ==
    IF kind = "bottom_up" THEN RowsAscending(s) ELSE Reverse(RowsAscending(s))

\* C22: an iterator from bottom_up() (top_down()) on a sounding with n
\* pressure levels yields the n rows of get_data_row(0..n-1) in ascending
\* (descending) order, then None, and None again on every later call; an
\* iterator requested after another starts from its first row.
C22_IteratorYieldsEveryRowOnce ==
    it.kind \in {"bottom_up", "top_down"} =>
        /\ it.state = "live"
        /\ Len(it.rows) <= Len(snd.pressure)
        /\ it.rows = SubSeq(RowsOf(snd, it.kind), 1, Len(it.rows))
        /\ it.nones > 0 => it.rows = RowsOf(snd, it.kind)

\* what holds of the iterators short of the overflow in top_down(): an
\* iterator that was returned yields every row once, in its order
IteratorYieldsEveryRowUnlessPanicked ==
    (it.kind \in {"bottom_up", "top_down"} /\ it.state # "panicked") =>
        /\ it.state = "live"
        /\ Len(it.rows) <= Len(snd.pressure)
        /\ it.rows = SubSeq(RowsOf(snd, it.kind), 1, Len(it.rows))
        /\ it.nones > 0 => it.rows = RowsOf(snd, it.kind)

\* the field of the struct behind each variant of Profile, Surface and
\* Index (the variants with storage)
FieldOf ==
    [Pressure |-> "pressure", Temperature |-> "temperature",
     WetBulb |-> "wet_bulb", DewPoint |-> "dew_point", ThetaE |-> "theta_e",
     WindDirection |-> "direction", WindSpeed |-> "speed",
     PressureVerticalVelocity |-> "omega", GeopotentialHeight |-> "height",
     CloudFraction |-> "cloud_fraction",
     MSLP |-> "mslp", StationPressure |-> "station_pres",
     LowCloud |-> "low_cloud", MidCloud |-> "mid_cloud",
     HighCloud |-> "hi_cloud", UWind |-> "uwind", VWind |-> "vwind",
     Showalter |-> "show", LI |-> "li", SWeT |-> "swet", K |-> "kinx",
     LCL |-> "lclp", PWAT |-> "pwat", TotalTotals |-> "totl", CAPE |-> "cape",
     LCLTemperature |-> "lclt", CIN |-> "cins", EquilibrimLevel |-> "eqlv",
     LFC |-> "lfc", BulkRichardsonNumber |-> "brch"]

\* every field of the new sounding but one is that of the old sounding
OnlyChanges(old, new, field) ==
    /\ DOMAIN new = DOMAIN old
    /\ \A f \in DOMAIN old \ {field} : new[f] = old[f]

\* C23: each setter changes only the field it names: after
\* set_profile(P, v), get_profile(P) is v as given and every other field is
\* unchanged; after set_surface_value(S, x), and after set_index(I, x)
\* for an index with storage, the matching getter returns x and every other
\* field, the profiles included, is unchanged.
C23_SetterChangesOnlyItsField ==
    [][calls' = calls + 1 =>
        /\ last'.op = "set_profile" =>
               /\ get_profile(snd', last'.var) = last'.values
               /\ OnlyChanges(snd, snd', FieldOf[last'.var])
        /\ last'.op = "set_surface_value" =>
               /\ get_surface_value(snd', last'.var) = last'.value
               /\ OnlyChanges(snd, snd', FieldOf[last'.var])
        /\ (last'.op = "set_index" /\ last'.var \in StoredIndex) =>
               /\ get_index(snd', last'.var) = last'.value
               /\ OnlyChanges(snd, snd', FieldOf[last'.var])]_vars

\* set_index(LCL, 1.0) was called on a sounding that holds a profile with a
\* missing level: the LCL reads back as 1 and the profile is as it was set
C23_Witness ==
    /\ calls = 2
    /\ last.op = "set_index" /\ last.var = "LCL" /\ last.value = 1
    /\ get_index(snd, "LCL") = 1
    /\ get_index(snd, "LCLTemperature") = MISSING
    /\ get_profile(snd, "Temperature") = <<1, MISSING, 2>>

\* C24: top_down() on a sounding whose pressure profile is empty, such as
\* Sounding::new(), completes without an arithmetic overflow or a panic and
\* returns an iterator that yields no row, as bottom_up() does on the same
\* sounding.
C24_TopDownOnEmptyCompletes ==
    (it.kind = "top_down" /\ Len(snd.pressure) = 0) =>
        /\ it.state = "live"
        /\ it.rows = <<>>
        /\ collect(snd, [next |-> it.next, direction |-> it.direction])
           = collect(snd, bottom_up(snd))

\* C25: fetch_nearest_pnt(target) returns a row without a panic for every
\* sounding and every target, a sounding with an empty pressure profile
\* included; when every pressure level is missing it is the row at index 0.
C25_NearestNeverPanics ==
    row.op = "fetch_nearest_pnt" =>
        /\ it.state # "panicked"
        /\ row.out # None
        /\ (Len(snd.pressure) > 0 /\ Present(snd.pressure) = {})
               => (row.idx = 0 /\ row.out = get_data_row(snd, 0))

\* what holds of fetch_nearest_pnt on a pressure profile that is not
\* empty: a row is returned, the row at index 0 when every level is missing
NearestReturnsRowUnlessEmpty ==
    (row.op = "fetch_nearest_pnt" /\ Len(snd.pressure) > 0) =>
        /\ it.state # "panicked"
        /\ row.out # None
        /\ Present(snd.pressure) = {}
               => (row.idx = 0 /\ row.out = get_data_row(snd, 0))

\* C26: whenever linear_interpolate(target) sets a variable other than the
\* pressure, the two levels it used as brackets have a present pressure,
\* with p_below > target > p_above; the sentinel of a missing pressure is
\* never used as a bracketing pressure.
C26_BracketsHavePresentPressure ==
    (/\ row.op = "linear_interpolate"
     /\ \E f \in RowFields : row.out[1][f] # MISSING)
        => LET b == bracket_loop(snd.pressure, row.target_p, 0, 0, 0)
               p_below == snd.pressure[b.below_idx + 1]
               p_above == snd.pressure[b.above_idx + 1]
           IN  /\ p_below # MISSING
               /\ p_above # MISSING
               /\ p_below > row.target_p
               /\ row.target_p > p_above

====
